---- MODULE Spec2Model ----
(* Model of AzureOperations (packages/fx-core/src/plugins/resource/bot/    *)
(* azureOps.ts): six call wrappers around a resource-management client and *)
(* an HTTP transport, and the deployment status poller CheckDeployStatus.  *)
(* One invocation runs at a time (the caller awaits each operation).       *)
EXTENDS Integers, Sequences, FiniteSets, TLC

(* ------------------------------------------------------------------ *)
(* Bounds and configuration                                            *)
(* ------------------------------------------------------------------ *)

\* DeployStatus.RETRY_TIMES, the poll attempt ceiling.  The poller reads it
\* from ./constants as supplied configuration; the model fixes a small
\* value (at least 1) and the properties are stated for whatever it is.
RETRY_TIMES == 3

\* DeployStatus.BACKOFF_TIME_S, the seconds between poll attempts, read
\* from ./constants in the same way; any positive value.
BACKOFF_TIME_S == 10

\* Values a collaborator may raise.
Exceptions == {"ECONNRESET", "ETIMEDOUT"}

\* Numeric status codes a collaborator may answer with.
Codes == {200, 201, 202, 404, 500}

\* Values of the `location` header.
Locations == {"L1", "L2"}

\* Values CheckDeployStatus can be given as location at run time: a
\* string, or the undefined a push without location header returned.
LocationArgs == Locations \cup {"undefined"}

(* ------------------------------------------------------------------ *)
(* Values                                                              *)
(* ------------------------------------------------------------------ *)

\* A status field: a number, the value undefined, or a string holding digits.
NumStatus(c) == [kind |-> "number", code |-> c]
StrStatus(c) == [kind |-> "string", code |-> c]
UndefinedStatus == [kind |-> "undefined", code |-> 0]
StatusValues == {NumStatus(c) : c \in Codes} \cup {StrStatus(200), StrStatus(202), UndefinedStatus}

\* The outcome of one collaborator call.  tag "raise": the awaited promise
\* rejected with exc; tag "undefined": it resolved to undefined; tag
\* "object": it resolved to an object.  inner says whether the object has
\* its nested member (_response for the management client, headers for the
\* transport); status is _response.status resp. res.status; location is
\* headers.location.
Outcome(tag, exc, inner, status, loc) ==
    [tag |-> tag, exc |-> exc, inner |-> inner, status |-> status, location |-> loc]
Raise(e) == Outcome("raise", e, FALSE, UndefinedStatus, "undefined")
Undefined == Outcome("undefined", "none", FALSE, UndefinedStatus, "undefined")

\* What botClient / webSiteMgmtClient calls can produce.
ArmOutcomes ==
    {Raise(e) : e \in Exceptions} \cup {Undefined}
    \cup {Outcome("object", "none", FALSE, UndefinedStatus, "undefined")}
    \cup {Outcome("object", "none", TRUE, s, "undefined") : s \in StatusValues}

\* What axiosInstance.post can produce.
PostOutcomes ==
    {Raise(e) : e \in Exceptions} \cup {Undefined}
    \cup {Outcome("object", "none", FALSE, s, "undefined") : s \in StatusValues}
    \cup {Outcome("object", "none", TRUE, s, l) : s \in StatusValues, l \in Locations \cup {"undefined"}}

\* What axiosInstance.get can produce (only res.status is read).
GetOutcomes ==
    {Raise(e) : e \in Exceptions} \cup {Undefined}
    \cup {Outcome("object", "none", TRUE, s, "undefined") : s \in StatusValues}

\* JavaScript truthiness of a resolved value.
Truthy(r) == r.tag = "object"

\* utils.isHttpCodeOkOrCreated: the code is 200 (OK) or 201 (Created).
isHttpCodeOkOrCreated(s) == s.kind = "number" /\ s.code \in {200, 201}

\* utils.isHttpCodeAccepted: the code is 202 (Accepted).
isHttpCodeAccepted(s) == s.kind = "number" /\ s.code = 202

\* How an invocation ended.
NoPayload == Outcome("none", "none", FALSE, UndefinedStatus, "undefined")
VoidPayload == Outcome("void", "none", FALSE, UndefinedStatus, "undefined")
StringPayload(l) == Outcome("string", "none", FALSE, UndefinedStatus, l)
Pending == [kind |-> "pending", error |-> "none", cause |-> "none", payload |-> NoPayload]
Thrown(err, cause) == [kind |-> "thrown", error |-> err, cause |-> cause, payload |-> NoPayload]
Returned(p) == [kind |-> "returned", error |-> "none", cause |-> "none", payload |-> p]

\* The optional boolean parameter `update`.
UpdateFlags == {"true", "false", "omitted"}
Not(u) == u \in {"false", "omitted"}

ExecutorOps == {"UpdateBotChannelRegistration", "LinkTeamsChannel", "CreateOrUpdateAzureWebApp",
                "ListPublishingCredentials", "ZipDeployPackage", "RestartWebApp"}

(* ------------------------------------------------------------------ *)
(* The operations as functions of the collaborator's outcome           *)
(* ------------------------------------------------------------------ *)

\* try/catch around botClient.bots.update, then the response check.
\* Reading botResponse._response.status of an object without _response
\* is a TypeError raised by the runtime.
UpdateBotChannelRegistrationResult(out) ==
    IF out.tag = "raise" THEN Thrown("MessageEndpointUpdating", out.exc)
    ELSE IF ~Truthy(out) THEN Thrown("MessageEndpointUpdating", "none")
    ELSE IF ~out.inner THEN Thrown("TypeError", "none")
    ELSE IF ~isHttpCodeOkOrCreated(out.status) THEN Thrown("MessageEndpointUpdating", "none")
    ELSE Returned(VoidPayload)

\* Variant: only 200 passes the response check of the channel link.
LinkTeamsChannelResult_OnlyOk(out) ==
    IF out.tag = "raise" THEN Thrown("Provisioning(MsTeamsChannel)", out.exc)
    ELSE IF ~Truthy(out) THEN Thrown("Provisioning(MsTeamsChannel)", "none")
    ELSE IF ~out.inner THEN Thrown("TypeError", "none")
    ELSE IF out.status # NumStatus(200) THEN Thrown("Provisioning(MsTeamsChannel)", "none")
    ELSE Returned(VoidPayload)

\* try/catch around botClient.channels.create, then the response check.
LinkTeamsChannelResult(out) ==
    IF out.tag = "raise" THEN Thrown("Provisioning(MsTeamsChannel)", out.exc)
    ELSE IF ~Truthy(out) THEN Thrown("Provisioning(MsTeamsChannel)", "none")
    ELSE IF ~out.inner THEN Thrown("TypeError", "none")
    ELSE IF ~isHttpCodeOkOrCreated(out.status) THEN Thrown("Provisioning(MsTeamsChannel)", "none")
    ELSE Returned(VoidPayload)

\* The error CreateOrUpdateAzureWebApp constructs: if (!update) ProvisionError else ConfigUpdatingError.
WebAppError(u) == IF Not(u) THEN "Provisioning(site)" ELSE "ConfigUpdating(authConfig)"

\* Variant: the response check always throws ProvisionError, whatever the flag.
CreateOrUpdateAzureWebAppResult_StatusIgnoresFlag(out, u) ==
    IF out.tag = "raise" THEN Thrown(WebAppError(u), out.exc)
    ELSE IF ~Truthy(out) THEN Thrown(WebAppError(u), "none")
    ELSE IF ~out.inner THEN Thrown("TypeError", "none")
    ELSE IF ~isHttpCodeOkOrCreated(out.status) THEN Thrown("Provisioning(site)", "none")
    ELSE Returned(out)

\* try/catch around webApps.createOrUpdate, then the response check; returns webappResponse.
CreateOrUpdateAzureWebAppResult(out, u) ==
    IF out.tag = "raise" THEN Thrown(WebAppError(u), out.exc)
    ELSE IF ~Truthy(out) THEN Thrown(WebAppError(u), "none")
    ELSE IF ~out.inner THEN Thrown("TypeError", "none")
    ELSE IF ~isHttpCodeOkOrCreated(out.status) THEN Thrown(WebAppError(u), "none")
    ELSE Returned(out)

\* Variant: only a status that is a number other than 200/201 is rejected.
ListPublishingCredentialsResult_LenientStatus(out) ==
    IF out.tag = "raise" THEN Thrown("ListPublishingCredentials", out.exc)
    ELSE IF ~Truthy(out) THEN Thrown("ListPublishingCredentials", "none")
    ELSE IF ~out.inner THEN Thrown("TypeError", "none")
    ELSE IF out.status.kind = "number" /\ ~isHttpCodeOkOrCreated(out.status)
         THEN Thrown("ListPublishingCredentials", "none")
    ELSE Returned(out)

\* try/catch around webApps.listPublishingCredentials, then the response check; returns listResponse.
ListPublishingCredentialsResult(out) ==
    IF out.tag = "raise" THEN Thrown("ListPublishingCredentials", out.exc)
    ELSE IF ~Truthy(out) THEN Thrown("ListPublishingCredentials", "none")
    ELSE IF ~out.inner THEN Thrown("TypeError", "none")
    ELSE IF ~isHttpCodeOkOrCreated(out.status) THEN Thrown("ListPublishingCredentials", "none")
    ELSE Returned(out)

\* Variant: the push validates its status like the other five operations.
ZipDeployPackageResult_OkOrCreated(out) ==
    IF out.tag = "raise" THEN Thrown("ZipDeploy", out.exc)
    ELSE IF ~Truthy(out) \/ ~isHttpCodeOkOrCreated(out.status) THEN Thrown("ZipDeploy", "none")
    ELSE IF ~out.inner THEN Thrown("TypeError", "none")
    ELSE Returned(StringPayload(out.location))

\* try/catch around axiosInstance.post, then the check of res.status with
\* isHttpCodeAccepted; returns res.headers.location (a TypeError when res
\* has no headers, undefined when headers has no location).
ZipDeployPackageResult(out) ==
    IF out.tag = "raise" THEN Thrown("ZipDeploy", out.exc)
    ELSE IF ~Truthy(out) \/ ~isHttpCodeAccepted(out.status) THEN Thrown("ZipDeploy", "none")
    ELSE IF ~out.inner THEN Thrown("TypeError", "none")
    ELSE Returned(StringPayload(out.location))

\* Variant: the catch clause drops the caught value.
RestartWebAppResult_NoCause(out) ==
    IF out.tag = "raise" THEN Thrown("RestartWebApp", "none")
    ELSE IF ~Truthy(out) THEN Thrown("RestartWebApp", "none")
    ELSE IF ~out.inner THEN Thrown("TypeError", "none")
    ELSE IF ~isHttpCodeOkOrCreated(out.status) THEN Thrown("RestartWebApp", "none")
    ELSE Returned(VoidPayload)

\* try/catch around webApps.restart, then the check of res?._response.status.
RestartWebAppResult(out) ==
    IF out.tag = "raise" THEN Thrown("RestartWebApp", out.exc)
    ELSE IF ~Truthy(out) THEN Thrown("RestartWebApp", "none")
    ELSE IF ~out.inner THEN Thrown("TypeError", "none")
    ELSE IF ~isHttpCodeOkOrCreated(out.status) THEN Thrown("RestartWebApp", "none")
    ELSE Returned(VoidPayload)

\* Variant: success is tested first and as "any 2xx", so 202 returns.
CheckDeployStatusBranch_AnySuccessFirst(out) ==
    IF out.tag = "raise" THEN "throwCause"
    ELSE IF ~Truthy(out) THEN "next"
    ELSE IF out.status.kind = "number" /\ out.status.code \in 200..299 THEN "return"
    ELSE IF isHttpCodeAccepted(out.status) THEN "wait"
    ELSE "throw"

\* Variant: an OkOrCreated answer does not return (the return statement is missing).
CheckDeployStatusBranch_NoReturn(out) ==
    IF out.tag = "raise" THEN "throwCause"
    ELSE IF ~Truthy(out) THEN "next"
    ELSE IF isHttpCodeAccepted(out.status) THEN "wait"
    ELSE IF isHttpCodeOkOrCreated(out.status) THEN "next"
    ELSE "throw"

\* Variant: every answer that is not OkOrCreated is waited on and retried.
CheckDeployStatusBranch_OtherRetries(out) ==
    IF out.tag = "raise" THEN "throwCause"
    ELSE IF ~Truthy(out) THEN "next"
    ELSE IF isHttpCodeOkOrCreated(out.status) THEN "return"
    ELSE "wait"

\* Variant: the catch clause swallows the exception and the loop goes on.
CheckDeployStatusBranch_RaiseRetries(out) ==
    IF out.tag = "raise" THEN "next"
    ELSE IF ~Truthy(out) THEN "next"
    ELSE IF isHttpCodeAccepted(out.status) THEN "wait"
    ELSE IF isHttpCodeOkOrCreated(out.status) THEN "return"
    ELSE "throw"

\* One iteration of the poller's loop body after the GET settled:
\* "throwCause" the catch clause, "next" a falsy res (falls through to ++i),
\* "wait" the Accepted branch, "return" the OkOrCreated branch, "throw" the else branch.
CheckDeployStatusBranch(out) ==
    IF out.tag = "raise" THEN "throwCause"
    ELSE IF ~Truthy(out) THEN "next"
    ELSE IF isHttpCodeAccepted(out.status) THEN "wait"
    ELSE IF isHttpCodeOkOrCreated(out.status) THEN "return"
    ELSE "throw"

\* Variant: the delay grows with the attempt number.
Backoff_Growing(n) == BACKOFF_TIME_S * (n + 1)

\* The argument of waitSeconds in iteration n: DeployStatus.BACKOFF_TIME_S.
Backoff(n) == BACKOFF_TIME_S

\* Variant: the counter lives outside the invocation and keeps its value.
LoopStart_Carried(carried) == carried

\* The loop's initialiser `let i = 0`: whatever a counter held before, this one starts at 0.
LoopStart(carried) == 0

\* Variant: the counter is not advanced at the end of an iteration.
Increment_Stuck(n) == n

\* The poller's ++i at the end of an iteration.
Increment(n) == n + 1

\* Variant: the loop condition is off by one (i <= RETRY_TIMES).
LoopCondition_OffByOne(n) == n <= RETRY_TIMES

\* The poller's loop condition i < DeployStatus.RETRY_TIMES.
LoopCondition(n) == n < RETRY_TIMES

(* ------------------------------------------------------------------ *)
(* State                                                               *)
(* ------------------------------------------------------------------ *)

VARIABLES
    op,        \* the operation being (or last) invoked, "none" before the first
    pc,        \* "idle", "awaitCall", "top", "awaitGet", "sleeping", "done"
    update,    \* CreateOrUpdateAzureWebApp's update argument
    location,  \* CheckDeployStatus's location argument
    i,         \* CheckDeployStatus's loop counter
    res,       \* the local response variable of the running operation
    replies,   \* the collaborator outcomes received by this invocation, in order
    result,    \* how this invocation ended (Pending while it runs)
    calls,     \* collaborator calls issued by this invocation
    sleeps,    \* waitSeconds calls issued by this invocation
    waited,    \* seconds passed to waitSeconds by this invocation, summed
    trail,     \* the caller's record of the steps it has awaited, in order
    axiosInstance, \* the static transport client shared by the push and the poller
    previous   \* the operation invoked before this one, and how it ended

vars == <<op, pc, update, location, i, res, replies, result, calls, sleeps, waited, trail,
          axiosInstance, previous>>

Init ==
    /\ op = "none"
    /\ pc = "idle"
    /\ update = "omitted"
    /\ location = "undefined"
    /\ i = 0
    /\ res = Undefined
    /\ replies = <<>>
    /\ result = Pending
    /\ calls = 0
    /\ sleeps = 0
    /\ waited = 0
    /\ trail = <<>>
    /\ axiosInstance = "axios.create()"
    /\ previous = [op |-> "none", result |-> Pending]

\* The caller invokes operation o (each operation is awaited before the next):
\* locals are fresh, and the collaborator call of the try block is issued.
Invoke(o, u, l) ==
    /\ pc \in {"idle", "done"}
    /\ op' = o
    /\ update' = u
    /\ location' = l
    /\ i' = LoopStart(i)
    /\ res' = Undefined
    /\ replies' = <<>>
    /\ result' = Pending
    /\ sleeps' = 0
    /\ waited' = 0
    /\ previous' = [op |-> op, result |-> result]
    /\ UNCHANGED <<trail, axiosInstance>>

\* The awaited collaborator call of executor operation o settles with out
\* and the rest of the operation runs to its return or throw, ending in r.
Settle(o, out, r) ==
    /\ pc = "awaitCall"
    /\ op = o
    /\ res' = IF out.tag = "raise" THEN res ELSE out
    /\ replies' = Append(replies, out)
    /\ result' = r
    /\ pc' = "done"
    /\ UNCHANGED <<op, update, location, i, calls, sleeps, waited, trail, axiosInstance, previous>>

UpdateBotChannelRegistration ==
    /\ Invoke("UpdateBotChannelRegistration", "omitted", "undefined")
    /\ calls' = 1
    /\ pc' = "awaitCall"

UpdateBotChannelRegistrationSettled ==
    \E out \in ArmOutcomes :
        Settle("UpdateBotChannelRegistration", out, UpdateBotChannelRegistrationResult(out))

LinkTeamsChannel ==
    /\ Invoke("LinkTeamsChannel", "omitted", "undefined")
    /\ calls' = 1
    /\ pc' = "awaitCall"

LinkTeamsChannelSettled ==
    \E out \in ArmOutcomes : Settle("LinkTeamsChannel", out, LinkTeamsChannelResult(out))

CreateOrUpdateAzureWebApp ==
    \E u \in UpdateFlags :
        /\ Invoke("CreateOrUpdateAzureWebApp", u, "undefined")
        /\ calls' = 1
        /\ pc' = "awaitCall"

CreateOrUpdateAzureWebAppSettled ==
    \E out \in ArmOutcomes :
        Settle("CreateOrUpdateAzureWebApp", out, CreateOrUpdateAzureWebAppResult(out, update))

ListPublishingCredentials ==
    /\ Invoke("ListPublishingCredentials", "omitted", "undefined")
    /\ calls' = 1
    /\ pc' = "awaitCall"

ListPublishingCredentialsSettled ==
    \E out \in ArmOutcomes :
        Settle("ListPublishingCredentials", out, ListPublishingCredentialsResult(out))

ZipDeployPackage ==
    /\ Invoke("ZipDeployPackage", "omitted", "undefined")
    /\ calls' = 1
    /\ pc' = "awaitCall"

ZipDeployPackageSettled ==
    \E out \in PostOutcomes : Settle("ZipDeployPackage", out, ZipDeployPackageResult(out))

RestartWebApp ==
    /\ Invoke("RestartWebApp", "omitted", "undefined")
    /\ calls' = 1
    /\ pc' = "awaitCall"

RestartWebAppSettled ==
    \E out \in ArmOutcomes : Settle("RestartWebApp", out, RestartWebAppResult(out))

\* CheckDeployStatus is entered: res = undefined, i = 0, about to test the loop condition.
CheckDeployStatus ==
    \E l \in LocationArgs :
        /\ Invoke("CheckDeployStatus", "omitted", l)
        /\ calls' = 0
        /\ pc' = "top"

\* i < RETRY_TIMES holds: the GET of this iteration is issued.
CheckDeployStatusGet ==
    /\ pc = "top"
    /\ LoopCondition(i)
    /\ calls' = calls + 1
    /\ pc' = "awaitGet"
    /\ UNCHANGED <<op, update, location, i, res, replies, result, sleeps, waited, trail, axiosInstance, previous>>

\* The GET settled; the loop body runs up to its next suspension, return or throw.
CheckDeployStatusSettled ==
    /\ pc = "awaitGet"
    /\ \E out \in GetOutcomes :
        LET b == CheckDeployStatusBranch(out) IN
        /\ replies' = Append(replies, out)
        /\ res' = IF out.tag = "raise" THEN res ELSE out
        /\ \/ /\ b = "throwCause"
              /\ result' = Thrown("DeployStatus", out.exc)
              /\ pc' = "done"
              /\ UNCHANGED <<i, sleeps, waited>>
           \/ /\ b = "next"
              /\ i' = Increment(i)
              /\ pc' = "top"
              /\ UNCHANGED <<result, sleeps, waited>>
           \/ /\ b = "wait"
              /\ sleeps' = sleeps + 1
              /\ waited' = waited + Backoff(i)
              /\ pc' = "sleeping"
              /\ UNCHANGED <<result, i>>
           \/ /\ b = "return"
              /\ result' = Returned(VoidPayload)
              /\ pc' = "done"
              /\ UNCHANGED <<i, sleeps, waited>>
           \/ /\ b = "throw"
              /\ result' = Thrown("DeployStatus", "none")
              /\ pc' = "done"
              /\ UNCHANGED <<i, sleeps, waited>>
    /\ UNCHANGED <<op, update, location, calls, trail, axiosInstance, previous>>

\* waitSeconds(BACKOFF_TIME_S) elapsed: the iteration ends with ++i.
CheckDeployStatusWake ==
    /\ pc = "sleeping"
    /\ i' = Increment(i)
    /\ pc' = "top"
    /\ UNCHANGED <<op, update, location, res, replies, result, calls, sleeps, waited, trail, axiosInstance, previous>>

\* i < RETRY_TIMES fails: the loop is left and DeployTimeoutError is thrown.
CheckDeployStatusTimeout ==
    /\ pc = "top"
    /\ ~LoopCondition(i)
    /\ result' = Thrown("DeployTimeout", "none")
    /\ pc' = "done"
    /\ UNCHANGED <<op, update, location, i, res, replies, calls, sleeps, waited, trail, axiosInstance, previous>>

Next ==
    \/ UpdateBotChannelRegistration
    \/ UpdateBotChannelRegistrationSettled
    \/ LinkTeamsChannel
    \/ LinkTeamsChannelSettled
    \/ CreateOrUpdateAzureWebApp
    \/ CreateOrUpdateAzureWebAppSettled
    \/ ListPublishingCredentials
    \/ ListPublishingCredentialsSettled
    \/ ZipDeployPackage
    \/ ZipDeployPackageSettled
    \/ RestartWebApp
    \/ RestartWebAppSettled
    \/ CheckDeployStatus
    \/ CheckDeployStatusGet
    \/ CheckDeployStatusSettled
    \/ CheckDeployStatusWake
    \/ CheckDeployStatusTimeout

Spec == Init /\ [][Next]_vars

\* The same program when every GET and every sleep eventually completes
\* and the event loop eventually runs each continuation of the poller.
FairSpec ==
    /\ Init
    /\ [][Next]_vars
    /\ WF_vars(CheckDeployStatusGet)
    /\ WF_vars(CheckDeployStatusSettled)
    /\ WF_vars(CheckDeployStatusWake)
    /\ WF_vars(CheckDeployStatusTimeout)

(* ------------------------------------------------------------------ *)
(* The provisioning workflow that calls the operations                 *)
(* ------------------------------------------------------------------ *)

\* The caller's record of one awaited step.
Step == [op |-> op, update |-> update, location |-> location, replies |-> replies,
         result |-> result]

\* The last awaited step was operation o and it returned.
After(o) ==
    /\ pc = "idle"
    /\ trail # <<>>
    /\ trail[Len(trail)].op = o
    /\ trail[Len(trail)].result.kind = "returned"

\* The await of the running step completes in the caller: the step is
\* recorded; a step that threw aborts the workflow (no later step starts).
WorkflowAwaited ==
    /\ pc = "done"
    /\ trail' = Append(trail, Step)
    /\ pc' = "idle"
    /\ UNCHANGED <<op, update, location, i, res, replies, result, calls, sleeps, waited,
                   axiosInstance, previous>>

\* registration update -> channel link -> site create/update ->
\* [optional credential fetch] -> package push -> status poll -> restart.
WorkflowRegistration == pc = "idle" /\ trail = <<>> /\ UpdateBotChannelRegistration
WorkflowChannel == After("UpdateBotChannelRegistration") /\ LinkTeamsChannel
WorkflowSite == After("LinkTeamsChannel") /\ CreateOrUpdateAzureWebApp
WorkflowCredentials == After("CreateOrUpdateAzureWebApp") /\ ListPublishingCredentials
WorkflowPush ==
    /\ After("CreateOrUpdateAzureWebApp") \/ After("ListPublishingCredentials")
    /\ ZipDeployPackage

\* The poller is invoked once, with the location the push step returned.
WorkflowPoll ==
    /\ After("ZipDeployPackage")
    /\ CheckDeployStatus
    /\ location' = trail[Len(trail)].result.payload.location
WorkflowRestart == After("CheckDeployStatus") /\ RestartWebApp

WorkflowNext ==
    \/ WorkflowRegistration
    \/ UpdateBotChannelRegistrationSettled
    \/ WorkflowChannel
    \/ LinkTeamsChannelSettled
    \/ WorkflowSite
    \/ CreateOrUpdateAzureWebAppSettled
    \/ WorkflowCredentials
    \/ ListPublishingCredentialsSettled
    \/ WorkflowPush
    \/ ZipDeployPackageSettled
    \/ WorkflowPoll
    \/ CheckDeployStatusGet
    \/ CheckDeployStatusSettled
    \/ CheckDeployStatusWake
    \/ CheckDeployStatusTimeout
    \/ WorkflowRestart
    \/ RestartWebAppSettled
    \/ WorkflowAwaited

WorkflowSpec == Init /\ [][WorkflowNext]_vars

TypeOK ==
    /\ op \in ExecutorOps \cup {"CheckDeployStatus", "none"}
    /\ pc \in {"idle", "awaitCall", "top", "awaitGet", "sleeping", "done"}
    /\ update \in UpdateFlags
    /\ location \in LocationArgs
    /\ i \in 0..RETRY_TIMES
    /\ calls \in 0..RETRY_TIMES
    /\ sleeps \in 0..RETRY_TIMES
    /\ waited = sleeps * BACKOFF_TIME_S
    /\ Len(replies) <= RETRY_TIMES

(* ------------------------------------------------------------------ *)
(* Vocabulary of the properties                                        *)
(* ------------------------------------------------------------------ *)

\* The reply is a response whose status is the number 202.
Status202(r) == r.tag = "object" /\ r.status = NumStatus(202)

\* The reply is a response whose status is the number 200 or 201.
StatusOkOrCreated(r) == r.tag = "object" /\ r.status \in {NumStatus(200), NumStatus(201)}

\* The reply is a response whose status is a number that is neither of the above.
StatusOther(r) ==
    r.tag = "object" /\ r.status.kind = "number" /\ r.status.code \notin {200, 201, 202}

\* The reply is a response whose status field is absent or not a number.
StatusMalformed(r) == r.tag = "object" /\ r.status.kind # "number"

\* The first k replies of this invocation are 202 responses.
FirstAccepted(k) == Len(replies) >= k /\ \A j \in 1..k : Status202(replies[j])

\* The number of 202 responses among the first n replies.
AcceptedAmong(n) == Cardinality({j \in 1..n : Status202(replies[j])})

\* The error kind the table of operations designates.
Designated(o, u) ==
    CASE o = "UpdateBotChannelRegistration" -> "MessageEndpointUpdating"
      [] o = "LinkTeamsChannel" -> "Provisioning(MsTeamsChannel)"
      [] o = "CreateOrUpdateAzureWebApp" ->
            IF u = "true" THEN "ConfigUpdating(authConfig)" ELSE "Provisioning(site)"
      [] o = "ListPublishingCredentials" -> "ListPublishingCredentials"
      [] o = "ZipDeployPackage" -> "ZipDeploy"
      [] o = "RestartWebApp" -> "RestartWebApp"

\* The success payload the table of operations names, for reply r.
Payload(o, r) ==
    CASE o \in {"UpdateBotChannelRegistration", "LinkTeamsChannel", "RestartWebApp"} -> VoidPayload
      [] o \in {"CreateOrUpdateAzureWebApp", "ListPublishingCredentials"} -> r
      [] o = "ZipDeployPackage" -> StringPayload(r.location)

Polling == op = "CheckDeployStatus"
Executed == op \in ExecutorOps /\ pc = "done"

(* ------------------------------------------------------------------ *)
(* Properties of the poller                                            *)
(* ------------------------------------------------------------------ *)

\* C1: for every k < RETRY_TIMES, once the first k polls answered 202 and
\* poll k+1 answered 200/201, the poller has returned without error after
\* exactly k+1 GETs and k sleeps, and no later GET, reply or sleep exists.
C1_SucceedsAfterPending ==
    Polling =>
        \A k \in 0..(RETRY_TIMES - 1) :
            (FirstAccepted(k) /\ Len(replies) >= k + 1 /\ StatusOkOrCreated(replies[k + 1])) =>
                /\ pc = "done"
                /\ result = Returned(VoidPayload)
                /\ calls = k + 1
                /\ Len(replies) = k + 1
                /\ sleeps = k
                /\ waited = k * BACKOFF_TIME_S

\* The poller succeeded on its last allowed attempt after RETRY_TIMES - 1 pending answers.
C1_Witness ==
    /\ Polling /\ pc = "done" /\ result.kind = "returned"
    /\ FirstAccepted(RETRY_TIMES - 1)
    /\ Len(replies) = RETRY_TIMES
    /\ sleeps = RETRY_TIMES - 1

\* C2: once the first RETRY_TIMES polls all answered 202, exactly
\* RETRY_TIMES GETs and RETRY_TIMES sleeps were issued, no further GET can
\* be issued, the poller never returns nor throws DeployStatusError, and
\* when it ends it ends with DeployTimeoutError.
C2_TimesOutAfterAllPending ==
    (Polling /\ FirstAccepted(RETRY_TIMES)) =>
        /\ calls = RETRY_TIMES
        /\ Len(replies) = RETRY_TIMES
        /\ sleeps = RETRY_TIMES
        /\ pc \in {"sleeping", "top", "done"}
        /\ pc = "top" => i = RETRY_TIMES
        /\ result \in {Pending, Thrown("DeployTimeout", "none")}
        /\ pc = "done" => result = Thrown("DeployTimeout", "none")

\* The poller timed out after RETRY_TIMES pending answers.
C2_Witness ==
    /\ Polling /\ pc = "done" /\ FirstAccepted(RETRY_TIMES)
    /\ result.error = "DeployTimeout" /\ sleeps = RETRY_TIMES

\* C3: for every k < RETRY_TIMES, once the first k polls answered 202 and
\* poll k+1 answered a status that is neither 202 nor 200/201, the poller
\* has thrown DeployStatusError without cause after k+1 GETs and k sleeps,
\* and no later GET, reply or sleep exists.
C3_FailsFastOnOtherStatus ==
    Polling =>
        \A k \in 0..(RETRY_TIMES - 1) :
            (FirstAccepted(k) /\ Len(replies) >= k + 1 /\ StatusOther(replies[k + 1])) =>
                /\ pc = "done"
                /\ result = Thrown("DeployStatus", "none")
                /\ calls = k + 1
                /\ Len(replies) = k + 1
                /\ sleeps = k

\* The poller failed on a 500 answer with retry budget left.
C3_Witness ==
    /\ Polling /\ pc = "done" /\ Len(replies) = 2
    /\ Status202(replies[1]) /\ replies[2].status = NumStatus(500)
    /\ result.error = "DeployStatus" /\ calls < RETRY_TIMES

\* C4: a GET that raised is the last thing the poller did: it has thrown
\* DeployStatusError carrying the raised value, the number of GETs equals
\* the position of the raising poll, and the sleeps are exactly those
\* after the earlier 202 answers (none when the first poll raised).
C4_TransportErrorNotRetried ==
    Polling =>
        \A j \in 1..Len(replies) :
            replies[j].tag = "raise" =>
                /\ j = Len(replies)
                /\ pc = "done"
                /\ result = Thrown("DeployStatus", replies[j].exc)
                /\ calls = j
                /\ sleeps = AcceptedAmong(j - 1)
                /\ j = 1 => sleeps = 0

\* The GET raised on a later poll, after a pending answer.
C4_Witness ==
    /\ Polling /\ pc = "done" /\ Len(replies) >= 2
    /\ Status202(replies[1])
    /\ replies[Len(replies)].tag = "raise"
    /\ result.cause = "ECONNRESET"

(* ------------------------------------------------------------------ *)
(* Properties of the six executor operations                           *)
(* ------------------------------------------------------------------ *)

\* C5: when the collaborator call of an executor operation raised, the
\* operation has thrown the error kind the table designates for it (for
\* CreateOrUpdateAzureWebApp: by the update flag), carrying the raised
\* value as cause, and returned no payload.
C5_RaiseYieldsDesignatedErrorWithCause ==
    (op \in ExecutorOps /\ Len(replies) >= 1 /\ replies[1].tag = "raise") =>
        /\ pc = "done"
        /\ result.kind = "thrown"
        /\ result.error = Designated(op, update)
        /\ result.cause = replies[1].exc
        /\ result.payload = NoPayload

\* The restart call raised and RestartWebAppError carries the raised value.
C5_Witness ==
    /\ op = "RestartWebApp" /\ pc = "done"
    /\ replies[1] = Raise("ETIMEDOUT")
    /\ result = Thrown("RestartWebApp", "ETIMEDOUT")

\* C6 as stated: for all six operations, the package push included, a
\* response that carries a status makes the operation return its payload
\* if and only if the status is 200/201, and any other status (202
\* included) makes it throw its designated error without cause.
C6_AsStated ==
    (Executed /\ replies[1].tag = "object" /\ replies[1].inner) =>
        IF StatusOkOrCreated(replies[1])
        THEN result = Returned(Payload(op, replies[1]))
        ELSE result = Thrown(Designated(op, update), "none")

\* C6 amended: an executor operation whose call did not raise returns a
\* payload only if the status is 200/201, for the package push only if it
\* is 202.  The five resource-management operations return their payload
\* on every 200/201 status and throw their designated error without cause
\* on every response carrying any other status; the push throws
\* ZipDeployError without cause on every status other than 202 (200 and
\* 201 included) and returns the location header on a 202 response that
\* has headers.
C6_SuccessClassPerOperation ==
    (Executed /\ replies[1].tag # "raise") =>
        LET r == replies[1] IN
        IF op = "ZipDeployPackage"
        THEN /\ result.kind = "returned" => Status202(r)
             /\ (r.tag = "object" /\ ~Status202(r)) => result = Thrown("ZipDeploy", "none")
             /\ (Status202(r) /\ r.inner) => result = Returned(StringPayload(r.location))
        ELSE /\ result.kind = "returned" => StatusOkOrCreated(r)
             /\ (r.tag = "object" /\ r.inner /\ ~StatusOkOrCreated(r)) =>
                    result = Thrown(Designated(op, update), "none")
             /\ (r.inner /\ StatusOkOrCreated(r)) => result = Returned(Payload(op, r))

\* The push returned the location of a 202 response.
C6_Witness ==
    /\ op = "ZipDeployPackage" /\ pc = "done"
    /\ Status202(replies[1])
    /\ result = Returned(StringPayload("L1"))

\* C7: the push throws ZipDeployError with cause when the POST raised,
\* ZipDeployError without cause when the POST answered anything but 202,
\* and returns the response's location exactly when the POST answered 202.
C7_PushSucceedsExactlyOn202 ==
    (op = "ZipDeployPackage" /\ pc = "done") =>
        LET r == replies[1] IN
        IF r.tag = "raise" THEN result = Thrown("ZipDeploy", r.exc)
        ELSE IF Status202(r) THEN result = Returned(StringPayload(r.location))
        ELSE result = Thrown("ZipDeploy", "none")

\* C8: whenever CreateOrUpdateAzureWebApp fails because the call raised,
\* no response came back, or the response carries a status other than
\* 200/201, the error kind is Provisioning(site) for update false or
\* omitted and ConfigUpdating(authConfig) for update true, whatever the
\* raised value or the response; and whether it fails is decided by the
\* reply alone, not by the flag.
C8_ErrorKindBySoleFlag ==
    (op = "CreateOrUpdateAzureWebApp" /\ pc = "done") =>
        LET r == replies[1] IN
        /\ (r.tag \in {"raise", "undefined"} \/ (r.inner /\ ~StatusOkOrCreated(r))) =>
              /\ result.kind = "thrown"
              /\ result.error = IF update = "true" THEN "ConfigUpdating(authConfig)"
                                ELSE "Provisioning(site)"
        /\ result.kind = "thrown" <=> ~(r.inner /\ StatusOkOrCreated(r))

\* An update run failed on a 500 response with ConfigUpdating(authConfig).
C8_Witness ==
    /\ op = "CreateOrUpdateAzureWebApp" /\ pc = "done" /\ update = "true"
    /\ replies[1].status = NumStatus(500)
    /\ result = Thrown("ConfigUpdating(authConfig)", "none")

\* C9: a response that is present but whose status is absent or not a
\* number never yields a returned payload: an executor operation ends by
\* throwing (its designated error whenever the object holding the status
\* is there), and the poller ends at that very poll with DeployStatusError,
\* without sleeping on it.
C9_MalformedStatusIsFailure ==
    /\ Executed /\ StatusMalformed(replies[1]) =>
          /\ result.kind = "thrown"
          /\ (replies[1].inner \/ op = "ZipDeployPackage") =>
                result = Thrown(Designated(op, update), "none")
    /\ Polling =>
          \A j \in 1..Len(replies) :
              StatusMalformed(replies[j]) =>
                  /\ j = Len(replies)
                  /\ pc = "done"
                  /\ result = Thrown("DeployStatus", "none")
                  /\ sleeps = AcceptedAmong(j - 1)

\* Credentials were listed and the response's status was the string "200".
C9_Witness ==
    /\ op = "ListPublishingCredentials" /\ pc = "done"
    /\ replies[1].inner /\ replies[1].status = StrStatus(200)
    /\ result = Thrown("ListPublishingCredentials", "none")

\* C10: whatever failure reaches the caller is the typed error designated
\* for the operation (DeployStatus or DeployTimeout for the poller).
C10_OnlyDesignatedErrorsEscape ==
    result.kind = "thrown" =>
        IF Polling THEN result.error \in {"DeployStatus", "DeployTimeout"}
        ELSE result.error = Designated(op, update)

\* C11: 202 is the only poll outcome after which the poller goes on: every
\* poll after which the poller has not ended answered 202 and was slept
\* on exactly once, every other outcome is the last poll of the
\* invocation, and DeployTimeoutError means all RETRY_TIMES polls
\* answered 202.
C11_OnlyAcceptedConsumesRetry ==
    Polling =>
        /\ \A j \in 1..Len(replies) :
              (j < Len(replies) \/ pc # "done") => Status202(replies[j])
        /\ sleeps = AcceptedAmong(Len(replies))
        /\ result.error = "DeployTimeout" => FirstAccepted(RETRY_TIMES)

\* The terminal states of the poller: Succeeded, Failed, TimedOut.
Succeeded == Polling /\ pc = "done" /\ result = Returned(VoidPayload)
Failed == Polling /\ pc = "done" /\ result.kind = "thrown" /\ result.error = "DeployStatus"
TimedOut == Polling /\ pc = "done" /\ result = Thrown("DeployTimeout", "none")

\* C12: a started poller eventually ends, in exactly one of Succeeded,
\* Failed and TimedOut, after at most RETRY_TIMES GETs; from a terminal
\* state the only step is the caller's next invocation.
C12_PollerTerminates ==
    /\ [](Polling => calls <= RETRY_TIMES)
    /\ []((Polling /\ pc = "done") =>
            /\ Succeeded \/ Failed \/ TimedOut
            /\ ~(Succeeded /\ Failed) /\ ~(Succeeded /\ TimedOut) /\ ~(Failed /\ TimedOut))
    /\ [][(Polling /\ pc = "done") => (result' = Pending /\ replies' = <<>> /\ calls' \in {0, 1})]_vars
    /\ ((Polling /\ pc # "done") ~> (Polling /\ pc = "done"))

\* The poller ran its full budget and timed out.
C12_Witness == TimedOut /\ calls = RETRY_TIMES

\* C14: an invoked executor operation has issued exactly one collaborator
\* call and receives at most one outcome, whatever that outcome is; the
\* only call ever repeated within an invocation is the poller's GET, and
\* each GET after the first follows a 202 answer to the GET before it.
C14_OneCallPerOperation ==
    /\ op \in ExecutorOps =>
          /\ calls = 1
          /\ Len(replies) <= 1
          /\ pc = "awaitCall" <=> Len(replies) = 0
    /\ Polling => \A j \in 1..(calls - 1) : Status202(replies[j])

(* ------------------------------------------------------------------ *)
(* Properties of the workflow                                          *)
(* ------------------------------------------------------------------ *)

\* A management-client response with status code c.
ArmAnswer(c) == Outcome("object", "none", TRUE, NumStatus(c), "undefined")

\* The collaborator answers of the end-to-end scenario with location l, step by step.
ScenarioReplies(l) ==
    << <<ArmAnswer(200)>>,
       <<ArmAnswer(201)>>,
       <<ArmAnswer(200)>>,
       <<Outcome("object", "none", TRUE, NumStatus(202), l)>>,
       <<ArmAnswer(202), ArmAnswer(200)>>,
       <<ArmAnswer(200)>> >>

\* The operations of the end-to-end scenario, step by step.
ScenarioOps ==
    <<"UpdateBotChannelRegistration", "LinkTeamsChannel", "CreateOrUpdateAzureWebApp",
      "ZipDeployPackage", "CheckDeployStatus", "RestartWebApp">>

\* The first n awaited steps are the scenario's, with its answers.
ScenarioUpTo(n, l) ==
    /\ Len(trail) >= n
    /\ \A m \in 1..n :
          /\ trail[m].op = ScenarioOps[m]
          /\ trail[m].replies = ScenarioReplies(l)[m]
          /\ m = 3 => trail[m].update = "false"

\* C13: in a workflow run whose collaborators answer 200, 201, 200 (with
\* update = false), 202 with location L, then 202 and 200 to the polls,
\* and 200 to the restart, every step returns without raising, the push
\* returns L, the poller is invoked with exactly L, and the run ends
\* after the restart with no error.
C13_EndToEndScenarioCompletes ==
    \A l \in Locations : \A n \in 1..6 :
        ScenarioUpTo(n, l) =>
            /\ trail[n].result.kind = "returned"
            /\ n = 4 => trail[n].result = Returned(StringPayload(l))
            /\ n = 5 => trail[n].location = l
            /\ n = 6 => Len(trail) = 6 /\ \A m \in 1..6 : trail[m].result.kind = "returned"

\* The scenario ran to its end with location L1.
C13_Witness ==
    /\ ScenarioUpTo(6, "L1")
    /\ pc = "idle"
    /\ trail[5].location = "L1"
    /\ trail[6].result = Returned(VoidPayload)

(* ------------------------------------------------------------------ *)
(* Further properties of the push and the poller                       *)
(* ------------------------------------------------------------------ *)

\* C15: whenever the push returned, the returned value is a defined
\* location string, the one of the response's location header.
C15_PushReturnsDefinedLocation ==
    (op = "ZipDeployPackage" /\ result.kind = "returned") =>
        /\ result.payload.tag = "string"
        /\ result.payload.location \in Locations
        /\ result.payload.location = replies[1].location

\* C16: at every point of an invocation the seconds handed to waitSeconds
\* are BACKOFF_TIME_S for each sleep issued so far (so each sleep is for
\* exactly BACKOFF_TIME_S, whatever the attempt), the sleeps number at
\* most RETRY_TIMES and the total wait at most RETRY_TIMES x BACKOFF_TIME_S.
C16_FixedBoundedBackoff ==
    /\ waited = sleeps * BACKOFF_TIME_S
    /\ sleeps <= RETRY_TIMES
    /\ waited <= RETRY_TIMES * BACKOFF_TIME_S

\* The poller slept RETRY_TIMES times, the worst case.
C16_Witness ==
    Polling /\ sleeps = RETRY_TIMES /\ waited = RETRY_TIMES * BACKOFF_TIME_S /\ i = RETRY_TIMES

\* The classes of status code c that apply, by the two predicates the code uses.
ClassesOf(c) ==
    {k \in {"Accepted", "OkOrCreated", "Other"} :
        \/ k = "Accepted" /\ isHttpCodeAccepted(NumStatus(c))
        \/ k = "OkOrCreated" /\ isHttpCodeOkOrCreated(NumStatus(c))
        \/ k = "Other" /\ ~isHttpCodeAccepted(NumStatus(c)) /\ ~isHttpCodeOkOrCreated(NumStatus(c))}

\* What the poller did on its j-th reply: it went on to sleep, returned, or threw.
Handling(j) ==
    IF j < Len(replies) \/ pc \in {"sleeping", "top", "awaitGet"} \/ TimedOut THEN "Accepted"
    ELSE IF Succeeded THEN "OkOrCreated"
    ELSE "Other"

\* C17: every status code falls in exactly one of the classes Accepted,
\* OkOrCreated and Other, and the poller handles every numeric status it
\* receives by that class alone, wherever in the run it arrives: 202 is
\* waited on and never taken for success, 200/201 returns, anything else
\* throws.
C17_StatusClassPartition ==
    /\ \A c \in Codes : Cardinality(ClassesOf(c)) = 1
    /\ Polling =>
          \A j \in 1..Len(replies) :
              (replies[j].tag = "object" /\ replies[j].status.kind = "number") =>
                  /\ ClassesOf(replies[j].status.code) = {Handling(j)}
                  /\ replies[j].status.code = 202 <=> Handling(j) = "Accepted"

\* The same code, 202, was classified twice in one run, both times as pending.
C17_Witness ==
    /\ Polling /\ pc = "sleeping" /\ Len(replies) = 2
    /\ Status202(replies[1]) /\ Status202(replies[2])
    /\ sleeps = 2

\* C18: in every state of a poller invocation, sleeps = 202 answers
\* received <= GETs issued <= RETRY_TIMES; GETs and sleeps alternate
\* strictly (GET, sleep, GET, ...), so that every GET after the first is
\* issued right after one sleep, a sleep is only under way after a GET
\* that answered 202, and at most one GET is outstanding, never during a
\* sleep.
C18_GetSleepAlternation ==
    Polling =>
        /\ sleeps = AcceptedAmong(Len(replies))
        /\ sleeps <= calls
        /\ calls <= RETRY_TIMES
        /\ pc = "awaitGet" => sleeps = calls - 1
        /\ pc = "sleeping" => Status202(replies[Len(replies)]) /\ sleeps = calls
        /\ calls - Len(replies) = (IF pc = "awaitGet" THEN 1 ELSE 0)

\* The caller starts an operation in this step.
Invoked == pc \in {"idle", "done"} /\ pc' \in {"awaitCall", "top"}

\* C19: whatever ran before, an invocation starts with its own counter
\* at 0, its response variable undefined and nothing received or slept;
\* the poller's counter counts only the polls of its own invocation, so
\* it times out only after RETRY_TIMES GETs of its own; and no step of
\* any operation modifies the shared transport client.
C19_NoStateCarriesOver ==
    /\ [][axiosInstance' = axiosInstance]_vars
    /\ [][Invoked => (i' = 0 /\ res' = Undefined /\ replies' = <<>> /\ sleeps' = 0
                      /\ waited' = 0 /\ result' = Pending)]_vars
    /\ []((Polling /\ pc \in {"top", "awaitGet"}) => i = Len(replies))
    /\ [](TimedOut => (calls = RETRY_TIMES /\ Len(replies) = RETRY_TIMES))

\* After a poller run that timed out, a new poller run used its full budget and succeeded.
C19_Witness ==
    /\ previous.op = "CheckDeployStatus"
    /\ previous.result = Thrown("DeployTimeout", "none")
    /\ Succeeded
    /\ calls = RETRY_TIMES

====
